---- MODULE Spec2Model ----
(***************************************************************************)
(* A model of src/katas4.py: the NOAA hourly-weather pipeline              *)
(*     for chunk in extract(CSV_FILE): load(transform(chunk), DB_FILE)     *)
(*     generate_report(DB_FILE, REPORT_FILE)                               *)
(*                                                                         *)
(* Values.  Every Python / pandas / SQLite value is a record [t, s, n]:    *)
(*   t = "str"   a Python str, s its characters                            *)
(*   t = "num"   a Python int as read_csv types a numeric column, n        *)
(*   t = "float" a Python float, n its value in HUNDREDTHS (15.0 is 1500)  *)
(*   t = "nan"   the float NaN (pandas' missing cell)                      *)
(*   t = "None"  Python None                                               *)
(*   t = "NULL"  SQL NULL                                                  *)
(* Floats are exact rationals here; the code's values are n/10 and         *)
(* n*9/50 + 32, which hundredths hold exactly.                             *)
(***************************************************************************)
EXTENDS Integers, Sequences, FiniteSets, TLC

VARIABLES
    val, out, ppc,          \* parse_noaa_val alone: its argument, its result, position
    csv, pos, pc,           \* the input file, rows the extractor has read, position
    chunk, df,              \* the raw batch and transform's result for it
    disk, conn,             \* the committed database file; the open connection
    before, hist, lastWritten, aborted, \* history read by the properties
    report                  \* what generate_report computed

vars == <<val, out, ppc, csv, pos, pc, chunk, df, disk, conn,
          before, hist, lastWritten, aborted, report>>

parseVars == <<val, out, ppc>>
pipeVars  == <<csv, pos, pc, chunk, df, disk, conn, before, hist, lastWritten,
              aborted, report>>

----------------------------------------------------------------------------
(* Bounds *)

MaxStrLen == 5        \* longest string the parser specification grows by appending
MaxFileRows == 3      \* most data rows in the input file
ChunkSize == 2        \* rows per batch (chunksize, 1000 in the source, scaled down)

----------------------------------------------------------------------------
(* Values *)

Str(chars) == [t |-> "str", s |-> chars, n |-> 0]
Num(i)     == [t |-> "num", s |-> <<>>, n |-> i]
Float(h)   == [t |-> "float", s |-> <<>>, n |-> h]
NaN        == [t |-> "nan", s |-> <<>>, n |-> 0]
None       == [t |-> "None", s |-> <<>>, n |-> 0]
NULL       == [t |-> "NULL", s |-> <<>>, n |-> 0]

Digits == {"0", "1", "2", "3", "4", "5", "6", "7", "8", "9"}

DigitVal(c) ==
    CASE c = "0" -> 0 [] c = "1" -> 1 [] c = "2" -> 2 [] c = "3" -> 3
      [] c = "4" -> 4 [] c = "5" -> 5 [] c = "6" -> 6 [] c = "7" -> 7
      [] c = "8" -> 8 [] c = "9" -> 9 [] OTHER -> 0

AllDigits(s) == \A i \in 1..Len(s) : s[i] \in Digits

RECURSIVE DecimalValue(_)
DecimalValue(s) ==
    IF s = <<>> THEN 0
    ELSE 10 * DecimalValue(SubSeq(s, 1, Len(s) - 1)) + DigitVal(s[Len(s)])

\* pd.isna on a scalar: NaN and None are missing.
isna(v) == v.t \in {"nan", "None"}

\* str.split(',')[0]: the characters before the first comma, the whole string
\* when it has none.  split never returns an empty list, so [0] always exists.
SplitFirst(s) ==
    IF \E i \in 1..Len(s) : s[i] = ","
    THEN LET k == CHOOSE i \in 1..Len(s) :
                      s[i] = "," /\ \A j \in 1..(i - 1) : s[j] # ","
         IN SubSeq(s, 1, k - 1)
    ELSE s

\* float(text) over the model's characters (sign, digits, comma, letters): an
\* optional sign and one or more digits convert, anything else is a ValueError.
\* The value is in hundredths.
PyFloat(s) ==
    LET signed == Len(s) >= 1 /\ s[1] \in {"+", "-"}
        body   == IF signed THEN SubSeq(s, 2, Len(s)) ELSE s
    IN IF body # <<>> /\ AllDigits(body)
       THEN [ok |-> TRUE,
             v  |-> (IF signed /\ s[1] = "-" THEN -1 ELSE 1) * 100 * DecimalValue(body)]
       ELSE [ok |-> FALSE, v |-> 0]

\* A plausible slip: a falsy test that takes a zero reading for a missing one.
parse_noaa_val_zero_missing(v) ==
    IF isna(v) \/ v.t # "str" THEN None
    ELSE LET f == PyFloat(SplitFirst(v.s))
         IN IF ~f.ok THEN None
            ELSE IF f.v # 0 /\ f.v # 999900 THEN Float(f.v \div 10) ELSE None

\* transform.parse_noaa_val
parse_noaa_val(v) ==
    IF isna(v) \/ v.t # "str" THEN None
    ELSE LET f == PyFloat(SplitFirst(v.s))          \* numeric_part
         IN IF ~f.ok THEN None                       \* except ValueError
            ELSE IF f.v # 999900 THEN Float(f.v \div 10) ELSE None

----------------------------------------------------------------------------
(* transform: dates *)

NaT == [ok |-> FALSE, y |-> 0, mo |-> 0, d |-> 0, h |-> 0, mi |-> 0, sec |-> 0]

Two(s, i) == 10 * DigitVal(s[i]) + DigitVal(s[i + 1])

DaysIn(y, mo) ==
    IF mo \in {4, 6, 9, 11} THEN 30
    ELSE IF mo = 2
         THEN (IF y % 4 = 0 /\ (y % 100 # 0 \/ y % 400 = 0) THEN 29 ELSE 28)
         ELSE 31

\* pd.to_datetime(..., errors='coerce') on one cell.  The texts of the model are
\* ISO-8601 timestamps "YYYY-MM-DDTHH:MM:SS" (the NOAA export's DATE, a space
\* for the T also read) and free text: a text of that shape with every field in
\* range is a Timestamp, the others are coerced to NaT.  A missing cell is NaT;
\* a number is nanoseconds since the epoch.
to_datetime(v) ==
    IF v.t = "num"
    THEN [ok |-> TRUE, y |-> 1970, mo |-> 1, d |-> 1, h |-> 0, mi |-> 0, sec |-> 0]
    ELSE IF v.t # "str" THEN NaT
    ELSE LET s == v.s IN
      IF /\ Len(s) = 19
         /\ \A i \in {1, 2, 3, 4, 6, 7, 9, 10, 12, 13, 15, 16, 18, 19} : s[i] \in Digits
         /\ s[5] = "-" /\ s[8] = "-" /\ s[11] \in {"T", " "}
         /\ s[14] = ":" /\ s[17] = ":"
      THEN LET y  == 100 * Two(s, 1) + Two(s, 3)
               mo == Two(s, 6)
               d  == Two(s, 9)
               h  == Two(s, 12)
               mi == Two(s, 15)
               sc == Two(s, 18)
           IN IF /\ y \in 1678..2261 /\ mo \in 1..12 /\ d \in 1..DaysIn(y, mo)
                 /\ h \in 0..23 /\ mi \in 0..59 /\ sc \in 0..59
              THEN [ok |-> TRUE, y |-> y, mo |-> mo, d |-> d,
                    h |-> h, mi |-> mi, sec |-> sc]
              ELSE NaT
      ELSE NaT

DigitChar(i) ==
    CASE i = 0 -> "0" [] i = 1 -> "1" [] i = 2 -> "2" [] i = 3 -> "3"
      [] i = 4 -> "4" [] i = 5 -> "5" [] i = 6 -> "6" [] i = 7 -> "7"
      [] i = 8 -> "8" [] OTHER -> "9"

Pad2(i) == <<DigitChar(i \div 10), DigitChar(i % 10)>>

\* .dt.strftime('%Y-%m-%d %H:%M:%S'): NaT formats to NaN.
strftime(ts) ==
    IF ~ts.ok THEN NaN
    ELSE Str(Pad2(ts.y \div 100) \o Pad2(ts.y % 100) \o <<"-">> \o Pad2(ts.mo)
             \o <<"-">> \o Pad2(ts.d) \o <<" ">> \o Pad2(ts.h) \o <<":">>
             \o Pad2(ts.mi) \o <<":">> \o Pad2(ts.sec))

----------------------------------------------------------------------------
(* transform *)

AllCols == {"STATION", "DATE", "NAME", "TMP", "DEW"}
WantedCols == <<"STATION", "DATE", "NAME", "TMP", "DEW">>
Columns == <<"STATION", "DATE", "NAME", "temp_c", "dew_point_c", "temp_f">>

\* The elements of a sequence that are in keep, in order.
RECURSIVE SelectRows(_, _)
SelectRows(rows, keep) ==
    IF rows = <<>> THEN <<>>
    ELSE IF Head(rows) \in keep THEN <<Head(rows)>> \o SelectRows(Tail(rows), keep)
         ELSE SelectRows(Tail(rows), keep)

Range(f) == { f[i] : i \in DOMAIN f }

\* A slip: the validation step left out.
dropna_nothing(rows, subset) == rows

\* df.dropna(subset=...): the rows with no missing cell in the subset's columns.
dropna(rows, subset) ==
    SelectRows(rows, { r \in Range(rows) : \A c \in subset : ~isna(r[c]) })

\* What pandas makes of the list apply() returns: with a float among the
\* results the column is float64 and None becomes NaN; a column of None alone
\* stays an object column of None.
AsSeries(vals) ==
    IF \E i \in DOMAIN vals : vals[i].t = "float"
    THEN [i \in DOMAIN vals |-> IF vals[i].t = "None" THEN NaN ELSE vals[i]]
    ELSE vals

\* A slip: the offset left out of the conversion.
fahrenheit_no_offset(x) ==
    IF x.t = "None" THEN None
    ELSE IF x.t = "nan" THEN NaN
    ELSE Float((x.n * 9) \div 5)

\* lambda x: (x * 9/5) + 32 if x is not None else None
fahrenheit(x) ==
    IF x.t = "None" THEN None
    ELSE IF x.t = "nan" THEN NaN                     \* NaN arithmetic stays NaN
    ELSE Float(((x.n * 9) \div 5) + 3200)

KeyError == [raised |-> TRUE, cols |-> <<>>, rows |-> <<>>]

transform(ch) ==
    LET cols == SelectRows(WantedCols, ch.cols)                        \* 20-21
        has(c) == c \in Range(cols)
        \* chunk[cols].copy(): a column the batch lacks holds nothing
        proj == [i \in DOMAIN ch.rows |->
                   [c \in AllCols |-> IF has(c) THEN ch.rows[i][c] ELSE NaN]]
    IN IF ~has("STATION") \/ ~has("DATE") THEN KeyError                \* 25
       ELSE
       LET keyed == dropna(proj, {"STATION", "DATE"})                   \* 25
           dated == [i \in DOMAIN keyed |->                             \* 28
                       [keyed[i] EXCEPT !["DATE"] = strftime(to_datetime(@))]]
           kept  == dropna(dated, {"DATE"})                             \* 29
       IN IF ~has("TMP") \/ ~has("DEW") THEN KeyError                  \* 40, 41
          ELSE
          LET temp_c == AsSeries([i \in DOMAIN kept |-> parse_noaa_val(kept[i]["TMP"])])
              dew    == AsSeries([i \in DOMAIN kept |-> parse_noaa_val(kept[i]["DEW"])])
              temp_f == AsSeries([i \in DOMAIN kept |-> fahrenheit(temp_c[i])])
          IN [raised |-> FALSE,
              cols |-> SelectRows(Columns, (Range(cols) \ {"TMP", "DEW"})
                                             \cup {"temp_c", "dew_point_c", "temp_f"}),
              rows |-> [i \in DOMAIN kept |->
                          [STATION |-> kept[i]["STATION"], DATE |-> kept[i]["DATE"],
                           NAME |-> kept[i]["NAME"], temp_c |-> temp_c[i],
                           dew_point_c |-> dew[i], temp_f |-> temp_f[i]]]]

----------------------------------------------------------------------------
(* load: the SQLite database *)

\* A DataFrame cell as to_sql binds it: a missing cell is NULL.
ToSqlValue(v) == IF isna(v) THEN NULL ELSE v

ToSqlRow(r) == [c \in DOMAIN r |-> ToSqlValue(r[c])]

\* Two rows collide on PRIMARY KEY (STATION, DATE); NULL never equals NULL.
SameKey(a, b) ==
    /\ a.STATION.t # "NULL" /\ a.DATE.t # "NULL"
    /\ a.STATION = b.STATION /\ a.DATE = b.DATE

\* A slip: no primary key, so nothing is ever replaced.
insert_no_key(tbl, row) == Append(tbl, row)

\* A slip: INSERT OR IGNORE, which keeps the row already there.
insert_or_ignore(tbl, row) ==
    IF \E i \in DOMAIN tbl : SameKey(tbl[i], row) THEN tbl ELSE Append(tbl, row)

\* INSERT OR REPLACE of one row: the rows it collides with are deleted, then it
\* is inserted.
insert_or_replace(tbl, row) ==
    Append(SelectRows(tbl, { x \in Range(tbl) : ~SameKey(x, row) }), row)

\* A slip: only the first staged row is merged.
insert_select_first(tbl, st) ==
    IF st = <<>> THEN tbl ELSE insert_or_replace(tbl, Head(st))

\* INSERT OR REPLACE INTO hourly_weather SELECT * FROM staging: one statement,
\* the staged rows in rowid order.
RECURSIVE insert_select(_, _)
insert_select(tbl, st) ==
    IF st = <<>> THEN tbl
    ELSE insert_select(insert_or_replace(tbl, Head(st)), Tail(st))

NoDb == [hw_exists |-> FALSE, hw |-> <<>>,
         st_exists |-> FALSE, st_cols |-> <<>>, st |-> <<>>]

Closed(db) == [open |-> FALSE, in_transaction |-> FALSE, view |-> db]

----------------------------------------------------------------------------
(* The input files of the model: the text of each field, NaN for an empty   *)
(* one.  DATE fields are ISO timestamps or free text, STATION and NAME are  *)
(* text that is no number.                                                  *)

D1   == <<"2","0","2","3","-","0","1","-","0","1","T","0","0",":","0","0",":","0","0">>
DBad == <<"b","a","d">>
S1 == Str(<<"U","S","1">>)
S2 == Str(<<"U","S","2">>)
NameA == Str(<<"A">>)
T150 == Str(<<"+","0","1","5","0",",","5">>)
T050 == Str(<<"+","0","0","5","0",",","5">>)
TSentinel == Str(<<"9","9","9","9",",","9">>)
TNoComma == Str(<<"+","0","1","5","0">>)
TBad == Str(<<"x">>)

Raw(st, dt, nm, tmp, dew) ==
    [STATION |-> st, DATE |-> dt, NAME |-> nm, TMP |-> tmp, DEW |-> dew]

RawRows ==
    { Raw(S1, Str(D1), NameA, T150, T050),        \* the spec's end-to-end example
      Raw(S1, Str(D1), NameA, TSentinel, T050),   \* same key, sentinel TMP
      Raw(S2, Str(D1), NaN, TNoComma, TBad),      \* no NAME, TMP without its comma, malformed DEW
      Raw(NaN, Str(D1), NameA, T150, T050),       \* STATION missing
      Raw(S1, NaN, NameA, T150, T050),            \* DATE missing
      Raw(S1, Str(DBad), NameA, T150, T050) }     \* DATE that is no timestamp

\* The file's header: all five columns, or one of them missing.
ColSets == {AllCols} \cup { AllCols \ {c} : c \in AllCols }

Files ==
    { [cols |-> cs,
       rows |-> [i \in DOMAIN rs |->
                   [c \in AllCols |-> IF c \in cs THEN rs[i][c] ELSE NaN]]] :
        cs \in ColSets,
        rs \in UNION { [1..n -> RawRows] : n \in 1..MaxFileRows } }

----------------------------------------------------------------------------
(* The pipeline *)

Min(a, b) == IF a < b THEN a ELSE b

\* Batches the extractor has yielded after reading p rows.
Yielded(p) == (p + ChunkSize - 1) \div ChunkSize

\* Batches the run has committed so far.
Committed == IF pc \in {"extract", "report", "done"} THEN Yielded(pos) ELSE Yielded(pos) - 1

NoLoad == [set |-> FALSE, hw |-> <<>>, batch |-> <<>>]
NoChunk == [cols |-> {}, rows |-> <<>>]
NoFrame == [raised |-> FALSE, cols |-> <<>>, rows |-> <<>>]

Running == {"extract", "transform", "connect", "create", "to_sql_create",
            "to_sql_insert", "insert", "drop", "commit", "report"}

Init ==
    /\ val = None /\ out = None /\ ppc = "off"
    /\ csv \in Files
    /\ pos = 0 /\ pc = "extract"
    /\ chunk = NoChunk /\ df = NoFrame
    /\ disk = NoDb /\ conn = Closed(NoDb)
    /\ before = NoLoad
    /\ hist = [n |-> 0, last |-> <<>>, twice |-> FALSE] /\ lastWritten = {}
    /\ aborted = [at |-> "", mid |-> FALSE]
    /\ report = [written |-> FALSE, total |-> 0, sum_c |-> 0, n_c |-> 0, names |-> <<>>]

\* pd.read_csv types each column of a batch from its fields: a column whose
\* fields (the empty ones aside) are all numbers is numeric, any other column
\* holds its fields as str, and an empty field is NaN.
read_csv(rows) ==
    LET numeric(c) ==
            /\ \E i \in DOMAIN rows : rows[i][c].t = "str"
            /\ \A i \in DOMAIN rows : rows[i][c].t = "str" => PyFloat(rows[i][c].s).ok
    IN [i \in DOMAIN rows |->
          [c \in AllCols |->
              IF numeric(c) /\ rows[i][c].t = "str"
              THEN Num(PyFloat(rows[i][c].s).v \div 100)
              ELSE rows[i][c]]]

\* for chunk in extract(CSV_FILE): pd.read_csv(..., chunksize) yields the next
\* rows of the file; the loop ends when none are left.
Extract ==
    /\ pc = "extract"
    /\ IF pos < Len(csv.rows)
       THEN /\ chunk' = [cols |-> csv.cols,
                         rows |-> read_csv(SubSeq(csv.rows, pos + 1,
                                                  Min(pos + ChunkSize, Len(csv.rows))))]
            /\ pos' = Min(pos + ChunkSize, Len(csv.rows))
            /\ pc' = "transform"
       ELSE /\ pc' = "report" /\ UNCHANGED <<chunk, pos>>
    /\ UNCHANGED <<csv, df, disk, conn, before, hist, lastWritten, aborted, report>>
    /\ UNCHANGED parseVars

\* transform(chunk); a KeyError ends the script.
Transform ==
    /\ pc = "transform"
    /\ df' = transform(chunk)
    /\ pc' = IF df'.raised THEN "raised" ELSE "connect"
    /\ UNCHANGED <<csv, pos, chunk, disk, conn, before, hist, lastWritten,
                   aborted, report>>
    /\ UNCHANGED parseVars

\* conn = sqlite3.connect(db_path); cursor = conn.cursor()
Connect ==
    /\ pc = "connect"
    /\ conn' = [open |-> TRUE, in_transaction |-> FALSE, view |-> disk]
    /\ before' = [set |-> TRUE, hw |-> disk.hw,
                   batch |-> [i \in DOMAIN df.rows |-> ToSqlRow(df.rows[i])]]
    /\ pc' = "create"
    /\ UNCHANGED <<csv, pos, chunk, df, disk, hist, lastWritten, aborted, report>>
    /\ UNCHANGED parseVars

\* CREATE TABLE IF NOT EXISTS hourly_weather: DDL opens no transaction in the
\* sqlite3 module, so it is durable as soon as it has run.
CreateTable ==
    /\ pc = "create"
    /\ disk' = [disk EXCEPT !.hw_exists = TRUE]
    /\ conn' = [conn EXCEPT !.view = disk']
    /\ pc' = "to_sql_create"
    /\ UNCHANGED <<csv, pos, chunk, df, before, hist, lastWritten, aborted, report>>
    /\ UNCHANGED parseVars

\* df.to_sql('staging', if_exists='replace'), first half: the old staging table
\* is dropped and an empty one created with the frame's columns (DDL, durable).
ToSqlCreate ==
    /\ pc = "to_sql_create"
    /\ disk' = [disk EXCEPT !.st_exists = TRUE, !.st_cols = df.cols, !.st = <<>>]
    /\ conn' = [conn EXCEPT !.view = disk']
    /\ pc' = "to_sql_insert"
    /\ UNCHANGED <<csv, pos, chunk, df, before, hist, lastWritten, aborted, report>>
    /\ UNCHANGED parseVars

\* to_sql, second half: the frame's rows are inserted and pandas commits.
ToSqlInsert ==
    /\ pc = "to_sql_insert"
    /\ disk' = [disk EXCEPT !.st = [i \in DOMAIN df.rows |-> ToSqlRow(df.rows[i])]]
    /\ conn' = [conn EXCEPT !.view = disk']
    /\ pc' = "insert"
    /\ UNCHANGED <<csv, pos, chunk, df, before, hist, lastWritten, aborted, report>>
    /\ UNCHANGED parseVars

\* INSERT OR REPLACE INTO hourly_weather SELECT * FROM staging.  The statement
\* opens a transaction; nothing reaches the file before commit.  A staging table
\* that does not have the six columns makes it an OperationalError, which ends
\* the script with the connection abandoned.
InsertOrReplace ==
    /\ pc = "insert"
    /\ IF Len(disk.st_cols) = Len(Columns)
       THEN /\ conn' = [conn EXCEPT !.in_transaction = TRUE,
                                    !.view.hw = insert_select(conn.view.hw, conn.view.st)]
            /\ pc' = "drop"
       ELSE /\ conn' = Closed(disk)
            /\ pc' = "raised"
    /\ UNCHANGED <<csv, pos, chunk, df, disk, before, hist, lastWritten, aborted, report>>
    /\ UNCHANGED parseVars

\* DROP TABLE staging, inside the open transaction.
DropStaging ==
    /\ pc = "drop"
    /\ conn' = [conn EXCEPT !.view.st_exists = FALSE, !.view.st_cols = <<>>,
                            !.view.st = <<>>]
    /\ pc' = "commit"
    /\ UNCHANGED <<csv, pos, chunk, df, disk, before, hist, lastWritten, aborted, report>>
    /\ UNCHANGED parseVars

RECURSIVE LastWrites(_, _)
LastWrites(lw, rows) ==
    IF rows = <<>> THEN lw
    ELSE LastWrites({ x \in lw : ~SameKey(x, Head(rows)) } \cup {Head(rows)}, Tail(rows))

\* conn.commit(); conn.close(): the transaction becomes the file's content.
Commit ==
    /\ pc = "commit"
    /\ disk' = conn.view
    /\ conn' = Closed(disk')
    /\ hist' = [n |-> Min(hist.n + 1, 2), last |-> before.batch,
                 twice |-> hist.n > 0 /\ hist.last = before.batch]
    /\ lastWritten' = LastWrites(lastWritten, before.batch)
    /\ pc' = "extract"
    /\ UNCHANGED <<csv, pos, chunk, df, before, aborted, report>>
    /\ UNCHANGED parseVars

RECURSIVE SumTemp(_)
SumTemp(tbl) ==
    IF tbl = <<>> THEN 0
    ELSE (IF Head(tbl).temp_c.t = "float" THEN Head(tbl).temp_c.n ELSE 0)
         + SumTemp(Tail(tbl))

\* generate_report: COUNT(*), AVG(temp_c) (sum and count of the non-NULL
\* values), and COUNT(*) GROUP BY NAME; the database is only read.
GenerateReport ==
    /\ pc = "report"
    /\ report' =
         [written |-> TRUE,
          total |-> Len(disk.hw),
          sum_c |-> SumTemp(disk.hw),
          n_c |-> Cardinality({ i \in DOMAIN disk.hw : disk.hw[i].temp_c.t = "float" }),
          names |-> [nm \in { disk.hw[i].NAME : i \in DOMAIN disk.hw } |->
                       Cardinality({ i \in DOMAIN disk.hw : disk.hw[i].NAME = nm })]]
    /\ pc' = "done"
    /\ UNCHANGED <<csv, pos, chunk, df, disk, conn, before, hist, lastWritten, aborted>>
    /\ UNCHANGED parseVars

\* The run is interrupted or a statement fails (crash, kill, I/O error): the
\* process ends without commit, and SQLite rolls the open transaction back.
Abort ==
    /\ pc \in Running
    /\ aborted' = [at |-> pc,
                   mid |-> aborted.mid \/ (Committed \in 1..(Yielded(Len(csv.rows)) - 1))]
    /\ conn' = Closed(disk)
    /\ chunk' = NoChunk /\ df' = NoFrame
    /\ pc' = "aborted"
    /\ UNCHANGED <<csv, pos, disk, before, hist, lastWritten, report>>
    /\ UNCHANGED parseVars

\* The script is run again on the same file: extract starts from its first row.
Restart ==
    /\ pc \in {"aborted", "raised", "done"}
    /\ pos' = 0 /\ pc' = "extract"
    /\ chunk' = NoChunk /\ df' = NoFrame
    /\ before' = NoLoad
    /\ aborted' = [aborted EXCEPT !.at = ""]
    /\ UNCHANGED <<csv, disk, conn, hist, lastWritten, report>>
    /\ UNCHANGED parseVars

Next ==
    \/ Extract \/ Transform
    \/ Connect \/ CreateTable \/ ToSqlCreate \/ ToSqlInsert
    \/ InsertOrReplace \/ DropStaging \/ Commit
    \/ GenerateReport \/ Abort \/ Restart

Spec == Init /\ [][Next]_vars

----------------------------------------------------------------------------
(* parse_noaa_val on its own: every string over Alphabet up to MaxStrLen,   *)
(* the spec's examples, and the non-text inputs.                            *)

Alphabet == {"+", "-", "0", "5", "9", ",", "x"}

ParseSeeds ==
    { NaN, None, Num(150), Num(9999), Str(<<>>),
      Str(<<"+","0","1","5","0",",","5">>),
      Str(<<"+","0","0","5","0",",","5">>),
      Str(<<"0","0","0","0",",","1">>),
      Str(<<"9","9","9","9",",","9">>),
      Str(<<"+","9","9","9","9",",","1">>),
      Str(<<"-","9","9","9","9",",","1">>),
      Str(<<"+","0","1","5","0">>),
      Str(<<"0","1","5","0",",","5",",","5">>) }

PipeIdle ==
    /\ csv = [cols |-> {}, rows |-> <<>>] /\ pos = 0 /\ pc = "off"
    /\ chunk = NoChunk /\ df = NoFrame
    /\ disk = NoDb /\ conn = Closed(NoDb)
    /\ before = NoLoad
    /\ hist = [n |-> 0, last |-> <<>>, twice |-> FALSE] /\ lastWritten = {}
    /\ aborted = [at |-> "", mid |-> FALSE]
    /\ report = [written |-> FALSE, total |-> 0, sum_c |-> 0, n_c |-> 0, names |-> <<>>]

InitParse ==
    /\ val \in ParseSeeds /\ out = None /\ ppc = "input"
    /\ PipeIdle

AppendChar ==
    /\ ppc = "input" /\ val.t = "str" /\ Len(val.s) < MaxStrLen
    /\ \E c \in Alphabet : val' = Str(Append(val.s, c))
    /\ UNCHANGED <<out, ppc>> /\ UNCHANGED pipeVars

Parse ==
    /\ ppc = "input"
    /\ out' = parse_noaa_val(val) /\ ppc' = "done"
    /\ UNCHANGED val /\ UNCHANGED pipeVars

NextParse == AppendChar \/ Parse

SpecParse == InitParse /\ [][NextParse]_vars

----------------------------------------------------------------------------
(* Properties of parse_noaa_val (checked under SpecParse) *)

CountCommas(s) == Cardinality({ i \in 1..Len(s) : s[i] = "," })

\* The text before the first comma is a signed integer.
IsSignedInt(l) ==
    \/ l # <<>> /\ AllDigits(l)
    \/ Len(l) >= 2 /\ l[1] \in {"+", "-"} /\ AllDigits(Tail(l))

SignedIntValue(l) ==
    IF l[1] = "-" THEN 0 - DecimalValue(Tail(l))
    ELSE IF l[1] = "+" THEN DecimalValue(Tail(l))
    ELSE DecimalValue(l)

\* "<signed integer>,<quality code>": one comma, an integer before it, a
\* quality code after it.
IsEncoded(v) ==
    /\ v.t = "str" /\ CountCommas(v.s) = 1
    /\ IsSignedInt(SplitFirst(v.s))
    /\ Len(v.s) > Len(SplitFirst(v.s)) + 1

\* The inputs the spec gives an absent result: not text; an integer part of
\* 9999; not a two-part comma string (no comma, more than one, or a left part
\* that is no number).
AbsentCase(v) ==
    \/ v.t # "str"
    \/ IsSignedInt(SplitFirst(v.s)) /\ SignedIntValue(SplitFirst(v.s)) = 9999
    \/ CountCommas(v.s) # 1
    \/ ~IsSignedInt(SplitFirst(v.s))

\* C4: every input whose integer part is 9999, or that is not a two-part comma
\* string (missing comma, non-numeric left part), or that is not text at all,
\* parses to None.  (No exception escapes parse_noaa_val in any case: its
\* result is always a value.)
C4_AbsentCases == (ppc = "done" /\ AbsentCase(val)) => out = None

\* C5: every "<signed integer>,<quality code>" whose integer is not 9999 parses
\* to exactly integer / 10 (in hundredths: 10 * integer), so that "0000,1" is
\* the present value 0.0, and the result does not depend on the quality code.
C5_ValidValue ==
    (ppc = "done" /\ IsEncoded(val) /\ SignedIntValue(SplitFirst(val.s)) # 9999)
        => out = Float(10 * SignedIntValue(SplitFirst(val.s)))

\* C5's case: the zero reading "0000,1" has been parsed, to 0.0.
C5_Witness ==
    /\ ppc = "done" /\ val = Str(<<"0","0","0","0",",","1">>) /\ out = Float(0)

----------------------------------------------------------------------------
(* Properties of the pipeline (checked under Spec) *)

KeyEq(a, b) == a.STATION = b.STATION /\ a.DATE = b.DATE

\* Same set of rows and same row count.
SameTable(a, b) == Range(a) = Range(b) /\ Len(a) = Len(b)

Absent(v) == v.t \in {"None", "nan", "NULL"}

\* C1: a load of the batch that the load before it committed leaves
\* hourly_weather as that first load left it: same rows, same values, same
\* count.
C1_Idempotent ==
    [][(pc = "commit" /\ pc' = "extract" /\ hist.n > 0 /\ hist.last = before.batch)
         => SameTable(disk.hw, disk'.hw)]_vars

\* C1's case: a non-empty batch has been committed twice in a row.
C1_Witness == hist.twice /\ Len(hist.last) >= 2 /\ Len(disk.hw) >= 2

\* C2: hourly_weather never holds two rows with one (STATION, DATE), and its
\* rows are, key by key, the rows most recently loaded.
C2_LastWriteWins ==
    /\ \A i, j \in DOMAIN disk.hw : KeyEq(disk.hw[i], disk.hw[j]) => i = j
    /\ Range(disk.hw) = lastWritten

\* C2's case: a load has replaced a row that was there with other values.
C2_Witness ==
    /\ pc = "extract" /\ before.set
    /\ \E r \in Range(before.hw), x \in Range(disk.hw) :
          KeyEq(r, x) /\ r.temp_c # x.temp_c

IsTimestampText(v) ==
    /\ v.t = "str" /\ Len(v.s) = 19
    /\ \A i \in {1, 2, 3, 4, 6, 7, 9, 10, 12, 13, 15, 16, 18, 19} : v.s[i] \in Digits
    /\ v.s[5] = "-" /\ v.s[8] = "-" /\ v.s[11] = " " /\ v.s[14] = ":" /\ v.s[17] = ":"

\* A raw row that passes key validation: STATION and DATE present, DATE a
\* timestamp.
ValidRaw(r) == ~isna(r.STATION) /\ ~isna(r.DATE) /\ to_datetime(r.DATE).ok

\* C3: every row of hourly_weather, committed or in the open transaction, has a
\* non-empty STATION and a DATE of the form YYYY-MM-DD HH:MM:SS, and comes from
\* a raw row of the file with STATION and DATE present and DATE a timestamp.
C3_KeysValid ==
    \A r \in Range(disk.hw) \cup Range(conn.view.hw) :
        /\ r.STATION.t = "str" /\ r.STATION.s # <<>>
        /\ IsTimestampText(r.DATE)
        /\ \E raw \in Range(csv.rows) :
              /\ ValidRaw(raw) /\ raw.STATION = r.STATION
              /\ strftime(to_datetime(raw.DATE)) = r.DATE

\* C3's case: a file with a row lacking STATION, one lacking DATE and one whose
\* DATE is no timestamp has been loaded to the end.
C3_Witness ==
    /\ pc = "done" /\ disk.hw # <<>>
    /\ \E r \in Range(csv.rows) : isna(r.STATION)
    /\ \E r \in Range(csv.rows) : ~isna(r.DATE) /\ ~to_datetime(r.DATE).ok

\* C6: transform does not raise on a batch that lacks some of the five columns,
\* and keeps the columns that are there.
C6_MissingColumnsTolerated ==
    (pc \in {"raised", "connect"} /\ chunk.rows # <<>> /\ chunk.cols # AllCols)
        => /\ ~df.raised
           /\ \A c \in chunk.cols \cap {"STATION", "DATE", "NAME"} : c \in Range(df.cols)

\* The batch fully applied to a table: the table's rows whose key the batch does
\* not carry, and for each key of the batch its last row.
FullyApplied(hw, batch) ==
    { r \in Range(hw) : \A i \in DOMAIN batch : ~KeyEq(batch[i], r) }
    \cup { batch[i] : i \in { k \in DOMAIN batch :
                               \A j \in DOMAIN batch : j > k => ~KeyEq(batch[j], batch[k]) } }

\* C7: from the start of a load on, whatever interrupts it, the committed
\* hourly_weather is the table as the load found it or that table with the
\* whole batch applied; the rows of earlier loads that the batch does not
\* replace are there unchanged.
C7_LoadAtomic ==
    before.set =>
        /\ \/ SameTable(disk.hw, before.hw)
           \/ /\ Range(disk.hw) = FullyApplied(before.hw, before.batch)
              /\ Len(disk.hw) = Cardinality(FullyApplied(before.hw, before.batch))
        /\ \A r \in Range(before.hw) :
              (\A i \in DOMAIN before.batch : ~KeyEq(before.batch[i], r))
                  => r \in Range(disk.hw)

\* C7's case: a load was interrupted after its INSERT OR REPLACE and DROP and
\* before its commit, with a batch of two keys that would have changed the table.
C7_Witness ==
    /\ pc = "aborted" /\ aborted.at = "commit"
    /\ \E i, j \in DOMAIN before.batch : ~KeyEq(before.batch[i], before.batch[j])
    /\ before.hw # <<>>
    /\ FullyApplied(before.hw, before.batch) # Range(before.hw)
    /\ SameTable(disk.hw, before.hw)

\* A clean row as the claim describes it for a raw row: same station, the
\* normalised date; a sentinel or malformed TMP leaves temp_c and temp_f absent,
\* a sentinel or malformed DEW leaves dew_point_c absent, and a well-formed
\* value is present whatever the other field holds.
CleanOf(raw, row) ==
    /\ row.STATION = raw.STATION
    /\ row.DATE = strftime(to_datetime(raw.DATE))
    /\ AbsentCase(raw.TMP) => Absent(row.temp_c) /\ Absent(row.temp_f)
    /\ AbsentCase(raw.DEW) => Absent(row.dew_point_c)
    /\ (IsEncoded(raw.TMP) /\ ~AbsentCase(raw.TMP)) => ~Absent(row.temp_c)
    /\ (IsEncoded(raw.DEW) /\ ~AbsentCase(raw.DEW)) => ~Absent(row.dew_point_c)

\* C8: of a batch with the five columns, every raw row with STATION and DATE
\* present and DATE a timestamp is in transform's output, with TMP and DEW
\* parsed independently and a failure leaving only that field absent; and once
\* the load has committed, every row of the batch has its key in hourly_weather.
C8_FieldFailureKeepsRow ==
    /\ (pc \in {"connect", "create", "to_sql_create", "to_sql_insert", "insert",
                "drop", "commit"} /\ chunk.cols = AllCols)
          => \A i \in DOMAIN chunk.rows :
                ValidRaw(chunk.rows[i])
                   => \E j \in DOMAIN df.rows : CleanOf(chunk.rows[i], df.rows[j])
    /\ (pc = "extract" /\ before.set)
          => \A i \in DOMAIN before.batch :
                \E r \in Range(disk.hw) : KeyEq(r, before.batch[i])

Derived(row) ==
    /\ Absent(row.temp_c) <=> Absent(row.temp_f)
    /\ ~Absent(row.temp_c) => 5 * (row.temp_f.n - 3200) = 9 * row.temp_c.n

\* C9: in every row transform produced and in every row staged or stored,
\* temp_f is absent exactly when temp_c is, and is otherwise temp_c * 9/5 + 32
\* of the same row.
C9_Fahrenheit ==
    \A r \in Range(df.rows) \cup Range(disk.st) \cup Range(disk.hw)
               \cup Range(conn.view.hw) : Derived(r)

\* C9's case: the table holds a row with a temperature and one without.
C9_Witness ==
    /\ \E r \in Range(disk.hw) : r.temp_c.t = "float" /\ r.temp_f.t = "float"
    /\ \E r \in Range(disk.hw) : r.temp_c.t = "NULL"

\* One uninterrupted run over the file's rows from row p on, started on table hw.
RECURSIVE RunFrom(_, _, _)
RunFrom(file, hw, p) ==
    IF p >= Len(file.rows) THEN hw
    ELSE LET q == Min(p + ChunkSize, Len(file.rows))
             frame == transform([cols |-> file.cols,
                                 rows |-> read_csv(SubSeq(file.rows, p + 1, q))])
         IN RunFrom(file,
                    insert_select(hw, [i \in DOMAIN frame.rows |-> ToSqlRow(frame.rows[i])]),
                    q)

\* C10: whenever a run ends, however many earlier runs over the same file were
\* cut short and after however many of their batches, hourly_weather is what
\* one uninterrupted run over the file leaves in an empty database: no row
\* lost, none twice.
C10_RestartSafe == pc = "done" => SameTable(disk.hw, RunFrom(csv, <<>>, 0))

\* C10's case: a run was cut short after some but not all of its batches, and a
\* later run over the file has ended.
C10_Witness == pc = "done" /\ aborted.mid /\ Len(disk.hw) >= 2

====
